---- MODULE Spec2Model ----
(***************************************************************************)
(* The blog-post workflow of the oop crate (src/oop/src/lib.rs), driven    *)
(* as src/oop/src/main.rs drives it.                                       *)
(*                                                                         *)
(* Post is the state-pattern variant: a content String and an              *)
(* Option<Box<dyn State>> whose trait object is Draft, PendingReview or    *)
(* Published.  Post2 / DraftPost / PendingReviewPost are the type-state    *)
(* variant, where the phase is the type of the value.                      *)
(*                                                                         *)
(* A Rust String is a TLA+ string and push_str is \o.  An Option is a      *)
(* sequence of length at most one: <<>> is None and <<s>> is Some(s).      *)
(***************************************************************************)
EXTENDS Integers, Naturals, Sequences, FiniteSets, TLC

(* The number of method calls a run makes on a post. *)
MaxCalls == 6

(* The largest argument a caller passes to Cacher::value. *)
MaxArg == 2

(* The number of Counters a run makes, and of next() calls it makes. *)
NumCounters == 2

MaxNext == 8

(* The number of set_value calls a run makes on a LimitTracker. *)
MaxSetValues == 2

(* The longest contents and the longest query of the generated searches. *)
MaxContentsLen == 4

MaxQueryLen == 2

(* How far below 1 and above 100 the generated arguments of Guess::new go. *)
MaxGuessBeyond == 20

(* The literal main passes to add_text. *)
Salad == "I ate a salad for lunch today"

(* The arguments a caller passes to add_text. *)
Texts == {"", "a", Salad}

VARIABLES
    post,      \* the Post of main: [state, content]
    post2,     \* the type-state value of main: [type, content]
    log,       \* the calls made so far, each with its argument or return value
    panicked,  \* TRUE once a call has panicked
    cacher,         \* closures: the Cacher [calculation, value]
    calculated,     \* closures: how many times the Cacher ran its closure
    counters,       \* iterators: the Counters, each [count]
    limit_tracker,  \* refcell: the LimitTracker [value, max]
    sent_messages,  \* refcell: what the MockMessenger2 was told to send
    searched        \* minigrep: [query, contents, results, called]

libVars == <<cacher, calculated, counters, limit_tracker, sent_messages, searched>>

vars == <<post, post2, log, panicked, cacher, calculated, counters, limit_tracker,
          sent_messages, searched>>

(* ---------------------------------------------------------------------- *)
(* Option<T>                                                               *)
(* ---------------------------------------------------------------------- *)
None == <<>>

Some(s) == <<s>>

IsSome(opt) == opt # None

(* ---------------------------------------------------------------------- *)
(* trait State and its three implementations                               *)
(* ---------------------------------------------------------------------- *)

(* The default body of State::content. *)
State_content(p) == ""

Draft_request_review_publishes == "Published"

Draft_request_review == "PendingReview"

Draft_approve_skips_review == "Published"

Draft_approve == "Draft"

PendingReview_request_review_resets == "Draft"

PendingReview_request_review == "PendingReview"

PendingReview_approve_returns_self == "PendingReview"

PendingReview_approve == "Published"

Published_request_review_reopens == "PendingReview"

Published_request_review == "Published"

Published_approve_unpublishes == "PendingReview"

Published_approve == "Published"

Published_content_default(p) == State_content(p)

Published_content(p) == p.content

(* Dynamic dispatch through Box<dyn State>. *)
Dyn_request_review(s) ==
    CASE s = "Draft" -> Draft_request_review
      [] s = "PendingReview" -> PendingReview_request_review
      [] s = "Published" -> Published_request_review

Dyn_approve(s) ==
    CASE s = "Draft" -> Draft_approve
      [] s = "PendingReview" -> PendingReview_approve
      [] s = "Published" -> Published_approve

Dyn_content(s, p) ==
    CASE s = "Draft" -> State_content(p)
      [] s = "PendingReview" -> State_content(p)
      [] s = "Published" -> Published_content(p)

(* ---------------------------------------------------------------------- *)
(* impl Post                                                               *)
(* ---------------------------------------------------------------------- *)
Post_new_published == [state |-> Some("Published"), content |-> ""]

Post_new == [state |-> Some("Draft"), content |-> ""]

Post_add_text_prepends(p, text) == [p EXCEPT !.content = text \o p.content]

Post_add_text_draft_only(p, text) ==
    IF p.state = Some("Draft") THEN [p EXCEPT !.content = p.content \o text] ELSE p

Post_add_text(p, text) == [p EXCEPT !.content = p.content \o text]

(* self.state.as_ref().unwrap() panics on None. *)
Post_content_panics(p) == ~IsSome(p.state)

Post_content(p) == Dyn_content(p.state[1], p)

(* take() leaves None in the field; the if let puts the successor back. *)
Post_request_review_leaves_none(p) == [p EXCEPT !.state = None]

Post_request_review(p) ==
    LET taken == p.state
        emptied == [p EXCEPT !.state = None]
    IN  IF IsSome(taken)
        THEN [emptied EXCEPT !.state = Some(Dyn_request_review(taken[1]))]
        ELSE emptied

Post_approve_leaves_none(p) == [p EXCEPT !.state = None]

Post_approve(p) ==
    LET taken == p.state
        emptied == [p EXCEPT !.state = None]
    IN  IF IsSome(taken)
        THEN [emptied EXCEPT !.state = Some(Dyn_approve(taken[1]))]
        ELSE emptied

(* ---------------------------------------------------------------------- *)
(* Post2, DraftPost, PendingReviewPost                                     *)
(* ---------------------------------------------------------------------- *)
Post2_new == [type |-> "DraftPost", content |-> ""]

Post2_content(p) == p.content

DraftPost_add_text(p, text) == [p EXCEPT !.content = p.content \o text]

DraftPost_request_review_drops_content(p) ==
    [type |-> "PendingReviewPost", content |-> ""]

DraftPost_request_review_publishes(p) == [type |-> "Post2", content |-> p.content]

DraftPost_request_review(p) ==
    [type |-> "PendingReviewPost", content |-> p.content]

PendingReviewPost_approve_drops_content(p) == [type |-> "Post2", content |-> ""]

PendingReviewPost_approve(p) == [type |-> "Post2", content |-> p.content]

(* ---------------------------------------------------------------------- *)
(* closures: Cacher<T> where T: Fn(u32) -> u32                             *)
(* ---------------------------------------------------------------------- *)

(* The closures a Cacher is built with: |a| a and |x| x + 1. *)
Closures == {"identity", "add_one"}

(* (self.calculation)(arg) *)
Calculation(f, arg) ==
    CASE f = "identity" -> arg
      [] f = "add_one" -> arg + 1

Cacher_new(calculation) == [calculation |-> calculation, value |-> None]

Cacher_value_recalculates(c, arg) ==
    LET v == Calculation(c.calculation, arg)
    IN  [self |-> [c EXCEPT !.value = Some(v)], ret |-> v, ran |-> TRUE]

(* The Cacher after value(arg), what the call returned and whether it ran *)
(* the closure.                                                           *)
Cacher_value(c, arg) ==
    IF IsSome(c.value)
    THEN [self |-> c, ret |-> c.value[1], ran |-> FALSE]
    ELSE LET v == Calculation(c.calculation, arg)
         IN  [self |-> [c EXCEPT !.value = Some(v)], ret |-> v, ran |-> TRUE]

(* ---------------------------------------------------------------------- *)
(* iterators: Counter                                                      *)
(* ---------------------------------------------------------------------- *)
Counter_new == [count |-> 0]

Counter_next_inclusive(c) ==
    IF c.count <= 5
    THEN [self |-> [count |-> c.count + 1], ret |-> Some(c.count + 1)]
    ELSE [self |-> c, ret |-> None]

(* The Counter after next() and the Option it returned. *)
Counter_next(c) ==
    IF c.count < 5
    THEN [self |-> [count |-> c.count + 1], ret |-> Some(c.count + 1)]
    ELSE [self |-> c, ret |-> None]

(* ---------------------------------------------------------------------- *)
(* usize and f64.  A usize is its binary digits, most significant first,   *)
(* without leading zeros (<<>> is 0).  A finite non-zero f64 is            *)
(* [class, exp, mant]: mant is the 53-digit significand 1.xxx, most        *)
(* significant digit first, and the value is mant * 2^(exp - 52).          *)
(* ---------------------------------------------------------------------- *)

(* usize on a 64-bit target. *)
UsizeBits == 64

(* f64::MANTISSA_DIGITS *)
MantissaDigits == 53

Zeros(n) == [i \in 1..n |-> 0]

Ones(n) == [i \in 1..n |-> 1]

RECURSIVE Usize(_)
(* The usize of a small number. *)
Usize(n) == IF n = 0 THEN <<>> ELSE Append(Usize(n \div 2), n % 2)

(* digits + 1 on a fixed number of digits, for digits that are not all 1. *)
Increment(digits) ==
    LET n == Len(digits)
        k == CHOOSE i \in 1..n : digits[i] = 0 /\ \A j \in (i + 1)..n : digits[j] = 1
    IN  SubSeq(digits, 1, k - 1) \o <<1>> \o Zeros(n - k)

(* Round to nearest, ties to even: sig is the 53 digits kept, guard the   *)
(* first digit dropped, sticky whether any later digit dropped is 1.      *)
RoundNearestEven(sig, guard, sticky, exp) ==
    IF guard = 1 /\ (sticky \/ sig[Len(sig)] = 1)
    THEN IF sig = Ones(Len(sig))
         THEN [class |-> "finite", exp |-> exp + 1,
               mant |-> <<1>> \o Zeros(Len(sig) - 1)]
         ELSE [class |-> "finite", exp |-> exp, mant |-> Increment(sig)]
    ELSE [class |-> "finite", exp |-> exp, mant |-> sig]

(* value as f64 *)
UsizeAsF64(u) ==
    IF u = <<>> THEN [class |-> "zero"]
    ELSE IF Len(u) <= MantissaDigits
    THEN [class |-> "finite", exp |-> Len(u) - 1,
          mant |-> u \o Zeros(MantissaDigits - Len(u))]
    ELSE RoundNearestEven(SubSeq(u, 1, MantissaDigits),
                          u[MantissaDigits + 1],
                          \E i \in (MantissaDigits + 2)..Len(u) : u[i] = 1,
                          Len(u) - 1)

(* x >= y for digit sequences of one length. *)
DigitsGe(x, y) ==
    \/ x = y
    \/ \E i \in 1..Len(x) :
          /\ x[i] = 1
          /\ y[i] = 0
          /\ \A j \in 1..(i - 1) : x[j] = y[j]

(* Numbers below 2^55 are held in two halves <<high, low>>, low < 2^27,    *)
(* for the arithmetic of the division.                                     *)
HalfBase == 2 ^ 27

RECURSIVE DigitsValue(_)
(* The number a sequence of at most 27 digits writes. *)
DigitsValue(digits) ==
    IF digits = <<>> THEN 0
    ELSE 2 * DigitsValue(SubSeq(digits, 1, Len(digits) - 1)) + digits[Len(digits)]

(* The 53 digits of a significand as <<high, low>>. *)
Halves(mant) ==
    <<DigitsValue(SubSeq(mant, 1, MantissaDigits - 27)),
      DigitsValue(SubSeq(mant, MantissaDigits - 26, MantissaDigits))>>

HalvesGe(x, y) == x[1] > y[1] \/ (x[1] = y[1] /\ x[2] >= y[2])

(* x - y, for x >= y. *)
HalvesSub(x, y) ==
    IF x[2] >= y[2]
    THEN <<x[1] - y[1], x[2] - y[2]>>
    ELSE <<x[1] - y[1] - 1, (x[2] + HalfBase) - y[2]>>

(* 2 * x *)
HalvesDouble(x) == <<2 * x[1] + (2 * x[2]) \div HalfBase, (2 * x[2]) % HalfBase>>

(* One digit of the long division by d: the remainder is doubled and d   *)
(* taken from it if it fits.                                              *)
DivisionStep(s, d) ==
    LET doubled == HalvesDouble(s.rem)
    IN  IF HalvesGe(doubled, d)
        THEN [q |-> Append(s.q, 1), rem |-> HalvesSub(doubled, d)]
        ELSE [q |-> Append(s.q, 0), rem |-> doubled]

RECURSIVE LongDivision(_, _, _)
(* n more digits of the quotient by d, for s.rem < d < 2^53: the first    *)
(* half of the steps, then the rest of them from the state they reached.  *)
LongDivision(s, d, n) ==
    IF n = 0 THEN s
    ELSE IF n = 1 THEN DivisionStep(s, d)
    ELSE CHOOSE end \in {LongDivision(half, d, n - n \div 2) :
                            half \in {LongDivision(s, d, n \div 2)}} : TRUE

(* a / b on f64, correctly rounded: the digits of the quotient of the     *)
(* significands, one more than the significand holds, then rounded.       *)
F64Div(a, b) ==
    IF a.class = "nan" \/ b.class = "nan" THEN [class |-> "nan"]
    ELSE IF b.class = "zero"
    THEN (IF a.class = "zero" THEN [class |-> "nan"] ELSE [class |-> "inf"])
    ELSE IF a.class = "zero" THEN [class |-> "zero"]
    ELSE LET x == Halves(a.mant)
             y == Halves(b.mant)
             whole == IF HalvesGe(x, y) THEN 1 ELSE 0
             rem0 == IF whole = 1 THEN HalvesSub(x, y) ELSE x
             frac == LongDivision([q |-> <<whole>>, rem |-> rem0], y, MantissaDigits + 1)
             digits == frac.q
         IN  IF whole = 1
             THEN RoundNearestEven(SubSeq(digits, 1, MantissaDigits),
                                   digits[MantissaDigits + 1],
                                   digits[MantissaDigits + 2] = 1
                                      \/ frac.rem # <<0, 0>>,
                                   a.exp - b.exp)
             ELSE RoundNearestEven(SubSeq(digits, 2, MantissaDigits + 1),
                                   digits[MantissaDigits + 2],
                                   frac.rem # <<0, 0>>,
                                   a.exp - b.exp - 1)

(* a >= b on f64, for a finite b > 0. *)
F64Ge(a, b) ==
    CASE a.class = "nan" -> FALSE
      [] a.class = "zero" -> FALSE
      [] a.class = "inf" -> TRUE
      [] a.class = "finite" ->
            \/ a.exp > b.exp
            \/ a.exp = b.exp /\ DigitsGe(a.mant, b.mant)

(* The literals 1.0, 0.9 and 0.75 as f64. *)
F64_1_0 == [class |-> "finite", exp |-> 0, mant |-> <<1>> \o Zeros(52)]

F64_0_9 ==
    [class |-> "finite", exp |-> 0 - 1,
     mant |-> <<1>> \o <<1,1,0,0, 1,1,0,0, 1,1,0,0, 1,1,0,0, 1,1,0,0, 1,1,0,0,
                        1,1,0,0, 1,1,0,0, 1,1,0,0, 1,1,0,0, 1,1,0,0, 1,1,0,0,
                        1,1,0,1>>]

F64_0_75 == [class |-> "finite", exp |-> 0 - 1, mant |-> <<1, 1>> \o Zeros(51)]

(* ---------------------------------------------------------------------- *)
(* refcell: LimitTracker and the mock Messenger of its test                *)
(* ---------------------------------------------------------------------- *)
MsgOverQuota == "Error: You are over your quota!"

MsgOver90 == "Urgent warning: You've used up over 90% of your quota!"

MsgOver75 == "Warning: You've used up over 75% of your quota!"

LimitTracker_new(max) == [value |-> <<>>, max |-> max]

(* The LimitTracker after set_value(value) and the messages it passed to  *)
(* self.messenger.send, in order.                                         *)
LimitTracker_set_value(t, value) ==
    LET self == [t EXCEPT !.value = value]
        percentage_of_max == F64Div(UsizeAsF64(self.value), UsizeAsF64(self.max))
    IN  [self |-> self,
         sent |-> IF F64Ge(percentage_of_max, F64_1_0) THEN <<MsgOverQuota>>
                  ELSE IF F64Ge(percentage_of_max, F64_0_9) THEN <<MsgOver90>>
                  ELSE IF F64Ge(percentage_of_max, F64_0_75) THEN <<MsgOver75>>
                  ELSE <<>>]

(* self.sent_messages.borrow_mut().push(String::from(message)) *)
MockMessenger2_send(sent, message) == Append(sent, message)

(* ---------------------------------------------------------------------- *)
(* minigrep: search                                                        *)
(* ---------------------------------------------------------------------- *)

(* The index of the first "\n" of s, or 0. *)
FirstNewline(s) ==
    IF \E i \in 1..Len(s) : SubSeq(s, i, i) = "\n"
    THEN CHOOSE i \in 1..Len(s) :
            /\ SubSeq(s, i, i) = "\n"
            /\ \A j \in 1..(i - 1) : SubSeq(s, j, j) # "\n"
    ELSE 0

RECURSIVE Str_lines(_)
(* contents.lines(): the text up to each "\n", without the "\n" and a     *)
(* "\r" right before it; the text after the last "\n" if there is any.    *)
Str_lines(s) ==
    IF s = "" THEN <<>>
    ELSE LET i == FirstNewline(s)
         IN  IF i = 0 THEN <<s>>
             ELSE LET line == SubSeq(s, 1, i - 1)
                      stripped == IF Len(line) > 0 /\ SubSeq(line, Len(line), Len(line)) = "\r"
                                  THEN SubSeq(line, 1, Len(line) - 1)
                                  ELSE line
                  IN  <<stripped>> \o Str_lines(SubSeq(s, i + 1, Len(s)))

RECURSIVE Str_contains(_, _)
(* line.contains(query) *)
Str_contains(line, query) ==
    IF Len(query) > Len(line) THEN FALSE
    ELSE IF SubSeq(line, 1, Len(query)) = query THEN TRUE
    ELSE Str_contains(SubSeq(line, 2, Len(line)), query)

RECURSIVE SearchLoop(_, _, _)
(* for line in lines { if line.contains(query) { results.push(line) } } *)
SearchLoop(lines, query, results) ==
    IF lines = <<>> THEN results
    ELSE SearchLoop(Tail(lines), query,
                    IF Str_contains(Head(lines), query)
                    THEN Append(results, Head(lines))
                    ELSE results)

search_first_match_only(query, contents) ==
    LET all == SearchLoop(Str_lines(contents), query, <<>>)
    IN  IF all = <<>> THEN all ELSE <<all[1]>>

search(query, contents) == SearchLoop(Str_lines(contents), query, <<>>)

(* ---------------------------------------------------------------------- *)
(* minigrep: search_case_insensitive                                       *)
(* ---------------------------------------------------------------------- *)
UppercaseLetters == "ABCDEFGHIJKLMNOPQRSTUVWXYZ"

LowercaseLetters == "abcdefghijklmnopqrstuvwxyz"

(* char::to_lowercase on ASCII: an uppercase letter becomes its lowercase  *)
(* letter, every other character stays.                                    *)
Char_to_lowercase(c) ==
    IF \E i \in 1..Len(UppercaseLetters) : SubSeq(UppercaseLetters, i, i) = c
    THEN LET i == CHOOSE j \in 1..Len(UppercaseLetters) :
                     SubSeq(UppercaseLetters, j, j) = c
         IN  SubSeq(LowercaseLetters, i, i)
    ELSE c

RECURSIVE Str_to_lowercase(_)
(* s.to_lowercase() *)
Str_to_lowercase(s) ==
    IF s = "" THEN ""
    ELSE Char_to_lowercase(SubSeq(s, 1, 1)) \o Str_to_lowercase(SubSeq(s, 2, Len(s)))

RECURSIVE SearchLoopCaseInsensitive(_, _, _)
(* for line in lines { if line.to_lowercase().contains(&query) {          *)
(* results.push(line) } }                                                 *)
SearchLoopCaseInsensitive(lines, query, results) ==
    IF lines = <<>> THEN results
    ELSE SearchLoopCaseInsensitive(Tail(lines), query,
                    IF Str_contains(Str_to_lowercase(Head(lines)), query)
                    THEN Append(results, Head(lines))
                    ELSE results)

search_case_insensitive_keeps_query_case(query, contents) ==
    SearchLoopCaseInsensitive(Str_lines(contents), query, <<>>)

search_case_insensitive(query, contents) ==
    SearchLoopCaseInsensitive(Str_lines(contents), Str_to_lowercase(query), <<>>)

(* ---------------------------------------------------------------------- *)
(* adder: Guess                                                            *)
(* ---------------------------------------------------------------------- *)
DecimalDigits == "0123456789"

RECURSIVE FormatUnsigned(_)
(* The decimal digits of n >= 0. *)
FormatUnsigned(n) ==
    IF n < 10 THEN SubSeq(DecimalDigits, n + 1, n + 1)
    ELSE FormatUnsigned(n \div 10) \o SubSeq(DecimalDigits, (n % 10) + 1, (n % 10) + 1)

(* {} with an i32 above i32::MIN: Display for i32. *)
FormatI32(n) == IF n < 0 THEN "-" \o FormatUnsigned(0 - n) ELSE FormatUnsigned(n)

(* Guess::new(value): the Guess made, or the message of the panic. *)
Guess_new(value) ==
    IF value < 1 \/ value > 100
    THEN [panic |-> Some("Guess value must be between 1 and 100, got "
                            \o FormatI32(value) \o "."),
          ret |-> None]
    ELSE [panic |-> None, ret |-> Some([value |-> value])]

(* ---------------------------------------------------------------------- *)
(* The values of the crates a run does not drive                           *)
(* ---------------------------------------------------------------------- *)
OopIdle == post = Post_new /\ post2 = Post2_new

CacherIdle == cacher = Cacher_new("identity") /\ calculated = 0

CountersIdle == counters = [i \in 1..NumCounters |-> Counter_new]

TrackerIdle == limit_tracker = LimitTracker_new(Usize(100)) /\ sent_messages = <<>>

SearchIdle ==
    searched = [query |-> "", contents |-> "", results |-> <<>>, called |-> FALSE]

LibIdle == CacherIdle /\ CountersIdle /\ TrackerIdle /\ SearchIdle

(* ---------------------------------------------------------------------- *)
(* The caller: main, generalised to any sequence of calls                  *)
(* ---------------------------------------------------------------------- *)
Call(op, text) == [op |-> op, text |-> text]

CanCall == ~panicked /\ Len(log) < MaxCalls

Init ==
    /\ post = Post_new
    /\ post2 = Post2_new
    /\ log = <<>>
    /\ panicked = FALSE
    /\ LibIdle

(* post.add_text(text) *)
AddText(text) ==
    /\ CanCall
    /\ post' = Post_add_text(post, text)
    /\ log' = Append(log, Call("add_text", text))
    /\ UNCHANGED <<post2, panicked>>
    /\ UNCHANGED libVars

(* post.content(); the log keeps the string it returned. *)
Content ==
    /\ CanCall
    /\ IF Post_content_panics(post)
       THEN panicked' = TRUE /\ UNCHANGED log
       ELSE log' = Append(log, Call("content", Post_content(post)))
            /\ UNCHANGED panicked
    /\ UNCHANGED <<post, post2>>
    /\ UNCHANGED libVars

(* post.request_review() *)
RequestReview ==
    /\ CanCall
    /\ post' = Post_request_review(post)
    /\ log' = Append(log, Call("request_review", ""))
    /\ UNCHANGED <<post2, panicked>>
    /\ UNCHANGED libVars

(* post.approve() *)
Approve ==
    /\ CanCall
    /\ post' = Post_approve(post)
    /\ log' = Append(log, Call("approve", ""))
    /\ UNCHANGED <<post2, panicked>>
    /\ UNCHANGED libVars

Next ==
    \/ \E text \in Texts : AddText(text)
    \/ Content
    \/ RequestReview
    \/ Approve

Spec == Init /\ [][Next]_vars

(* ---------------------------------------------------------------------- *)
(* main's second half: the same calls made on both variants.  A method     *)
(* that the type of post2 does not have cannot be called on it.            *)
(* ---------------------------------------------------------------------- *)

(* post.add_text(text) on the Post and on the DraftPost *)
BothAddText(text) ==
    /\ CanCall
    /\ post2.type = "DraftPost"
    /\ post' = Post_add_text(post, text)
    /\ post2' = DraftPost_add_text(post2, text)
    /\ log' = Append(log, Call("add_text", text))
    /\ UNCHANGED panicked
    /\ UNCHANGED libVars

(* post.request_review() on the Post; let post = post.request_review() *)
BothRequestReview ==
    /\ CanCall
    /\ post2.type = "DraftPost"
    /\ post' = Post_request_review(post)
    /\ post2' = DraftPost_request_review(post2)
    /\ log' = Append(log, Call("request_review", ""))
    /\ UNCHANGED panicked
    /\ UNCHANGED libVars

(* post.approve() on the Post; let post = post.approve() *)
BothApprove ==
    /\ CanCall
    /\ post2.type = "PendingReviewPost"
    /\ post' = Post_approve(post)
    /\ post2' = PendingReviewPost_approve(post2)
    /\ log' = Append(log, Call("approve", ""))
    /\ UNCHANGED panicked
    /\ UNCHANGED libVars

(* post.content() on the published Post2; the log keeps what it returned. *)
BothContent ==
    /\ CanCall
    /\ post2.type = "Post2"
    /\ log' = Append(log, Call("content", Post2_content(post2)))
    /\ UNCHANGED <<post, post2, panicked>>
    /\ UNCHANGED libVars

NextTypeState ==
    \/ \E text \in Texts : BothAddText(text)
    \/ BothRequestReview
    \/ BothApprove
    \/ BothContent

SpecTypeState == Init /\ [][NextTypeState]_vars

(* ---------------------------------------------------------------------- *)
(* What the log says                                                       *)
(* ---------------------------------------------------------------------- *)

(* The phase of the Post. *)
Phase == post.state[1]

RECURSIVE Concat(_)
(* The strings passed to add_text in the calls of l, concatenated in call order. *)
Concat(l) ==
    IF l = <<>> THEN ""
    ELSE LET rest == Concat(SubSeq(l, 1, Len(l) - 1))
             last == l[Len(l)]
         IN  IF last.op = "add_text" THEN rest \o last.text ELSE rest

Called(op) == \E i \in 1..Len(log) : log[i].op = op

(* request_review was called and approve was called after it. *)
ReviewedThenApproved ==
    \E i, j \in 1..Len(log) :
        i < j /\ log[i].op = "request_review" /\ log[j].op = "approve"

(* The step is a completed call of op. *)
IsCall(op) == Len(log') = Len(log) + 1 /\ log'[Len(log')].op = op

LastOp == IF log = <<>> THEN "new" ELSE log[Len(log)].op

(* ---------------------------------------------------------------------- *)
(* Properties of the state-pattern Post                                    *)
(* ---------------------------------------------------------------------- *)

(* C1: in every state reachable from Post::new() by add_text,              *)
(* request_review and approve calls, content() returns the empty string    *)
(* while the phase is Draft or PendingReview and the full accumulated      *)
(* text (every add_text argument so far, in call order) while the phase    *)
(* is Published.                                                           *)
C1_ContentVisibleOnlyWhenPublished ==
    /\ ~Post_content_panics(post)
    /\ Phase \in {"Draft", "PendingReview"} => Post_content(post) = ""
    /\ Phase = "Published" => Post_content(post) = Concat(log)

C1_Witness ==
    /\ Phase = "Published"
    /\ LastOp = "content"
    /\ log[Len(log)].text = "a" \o Salad
    /\ \E i \in 1..Len(log) : log[i].op = "content" /\ log[i].text = ""

(* C2: a request_review call takes Draft to PendingReview and leaves       *)
(* PendingReview and Published as they are.                                *)
C2_RequestReviewTable ==
    [][IsCall("request_review") =>
        /\ Phase = "Draft" => post'.state = Some("PendingReview")
        /\ Phase = "PendingReview" => post'.state = Some("PendingReview")
        /\ Phase = "Published" => post'.state = Some("Published")]_vars

C2_Witness ==
    /\ Phase = "Published"
    /\ LastOp = "request_review"
    /\ \E i, j \in 1..Len(log) :
          /\ i < j
          /\ log[i].op = "request_review"
          /\ log[j].op = "request_review"
          /\ \A k \in 1..j : log[k].op # "approve"

(* C3: an approve call leaves Draft as it is, takes PendingReview to       *)
(* Published and leaves Published as it is.                                *)
C3_ApproveTable ==
    [][IsCall("approve") =>
        /\ Phase = "Draft" => post'.state = Some("Draft")
        /\ Phase = "PendingReview" => post'.state = Some("Published")
        /\ Phase = "Published" => post'.state = Some("Published")]_vars

C3_Witness ==
    /\ Phase = "Published"
    /\ Len(log) >= 4
    /\ log[1].op = "approve"
    /\ log[Len(log) - 1].op = "approve"
    /\ log[Len(log)].op = "approve"

(* C4: once request_review has been called and approve after it,           *)
(* content() returns the concatenation in call order of every string       *)
(* passed to add_text so far, wherever the add_text calls fall; each       *)
(* content() call the log holds after that point returned the strings      *)
(* added before it.                                                        *)
C4_PublishedContentIsAllText ==
    /\ ReviewedThenApproved =>
          ~Post_content_panics(post) /\ Post_content(post) = Concat(log)
    /\ \A i, j, k \in 1..Len(log) :
          (/\ i < j /\ j < k
           /\ log[i].op = "request_review"
           /\ log[j].op = "approve"
           /\ log[k].op = "content")
          => log[k].text = Concat(SubSeq(log, 1, k - 1))

C4_Witness ==
    /\ Len(log) = 6
    /\ log[1] = Call("add_text", "a")
    /\ log[2].op = "request_review"
    /\ log[3] = Call("add_text", Salad)
    /\ log[4].op = "approve"
    /\ log[5] = Call("add_text", "a")
    /\ log[6] = Call("content", "a" \o Salad \o "a")

(* C5: while request_review has never been called, add_text and approve    *)
(* calls leave the phase Draft and content() returns the empty string.     *)
C5_NoReviewStaysDraft ==
    ~Called("request_review") =>
        /\ post.state = Some("Draft")
        /\ Post_content(post) = ""
        /\ \A i \in 1..Len(log) : log[i].op = "content" => log[i].text = ""

C5_Witness ==
    /\ ~Called("request_review")
    /\ Called("approve")
    /\ post.content = Salad \o "a"
    /\ LastOp = "content"

(* C6: after every call the state field holds Some of exactly one of       *)
(* Draft, PendingReview, Published, and no call has panicked.              *)
C6_StateAlwaysSome ==
    /\ Len(post.state) = 1
    /\ post.state[1] \in {"Draft", "PendingReview", "Published"}
    /\ ~panicked

C6_Witness ==
    /\ Called("request_review")
    /\ Called("approve")
    /\ LastOp = "content"
    /\ Phase = "Published"

(* C7: a request_review call that directly follows a request_review call   *)
(* changes neither the phase nor the text, and a request_review call made  *)
(* in Draft or PendingReview ends in PendingReview.                        *)
C7_RequestReviewIdempotent ==
    [][IsCall("request_review") =>
        /\ LastOp = "request_review" => post' = post
        /\ Phase \in {"Draft", "PendingReview"} => post'.state = Some("PendingReview")
        /\ post'.content = post.content]_vars

C7_Witness ==
    /\ Len(log) >= 4
    /\ log[Len(log) - 2].op = "request_review"
    /\ log[Len(log) - 1].op = "request_review"
    /\ log[Len(log)].op = "request_review"
    /\ Phase = "PendingReview"
    /\ post.content # ""

(* C8: an add_text call completes in every phase, appends its argument to  *)
(* the end of the text and leaves the phase as it is.                      *)
C8_AddTextAppends ==
    [][IsCall("add_text") =>
        /\ ~panicked'
        /\ post'.content = post.content \o log'[Len(log')].text
        /\ post'.state = post.state]_vars

C8_Witness ==
    /\ Len(log) = 5
    /\ log[1] = Call("add_text", Salad)
    /\ log[2].op = "request_review"
    /\ log[3] = Call("add_text", "a")
    /\ log[4].op = "approve"
    /\ log[5] = Call("add_text", Salad)
    /\ post = [state |-> Some("Published"), content |-> Salad \o "a" \o Salad]

(* C9: new; add_text(Salad); content() is ""; request_review();            *)
(* content() is ""; approve(); content() is Salad.                         *)
ScenarioOps ==
    <<"add_text", "content", "request_review", "content", "approve", "content">>

FollowsScenario(n) ==
    /\ Len(log) >= n
    /\ \A i \in 1..n : log[i].op = ScenarioOps[i]
    /\ log[1].text = Salad

C9_MainScenario ==
    /\ FollowsScenario(2) => log[2].text = ""
    /\ FollowsScenario(4) => log[4].text = ""
    /\ FollowsScenario(6) => log[6].text = Salad

C9_Witness == FollowsScenario(6) /\ log[6].text = Salad /\ ~panicked

(* ---------------------------------------------------------------------- *)
(* Properties of the type-state variant                                    *)
(* ---------------------------------------------------------------------- *)

(* C10: after the same add_text calls in the draft phase, then             *)
(* request_review, then approve, Post2::content returns the string that    *)
(* Post::content returns.                                                  *)
C10_TypeStateSameContent ==
    post2.type = "Post2" =>
        /\ ~Post_content_panics(post)
        /\ Post2_content(post2) = Post_content(post)

C10_Witness ==
    /\ post2.type = "Post2"
    /\ Len(log) = 5
    /\ log[1] = Call("add_text", "a")
    /\ log[2] = Call("add_text", Salad)
    /\ log[5] = Call("content", "a" \o Salad)
    /\ Post_content(post) = "a" \o Salad

(* C11: in the type-state variant content is read only from a Post2,       *)
(* approve is applied only to a PendingReviewPost, and a Post2 comes only  *)
(* from approve on a PendingReviewPost that came from request_review on a  *)
(* DraftPost: no phase is skipped.                                         *)
C11_TypeStateNoSkip ==
    [][/\ IsCall("content") => post2.type = "Post2"
       /\ IsCall("approve") => post2.type = "PendingReviewPost"
       /\ (post2'.type = "Post2" /\ post2.type # "Post2") =>
             (post2.type = "PendingReviewPost" /\ IsCall("approve"))
       /\ (post2'.type = "PendingReviewPost" /\ post2.type # "PendingReviewPost") =>
             (post2.type = "DraftPost" /\ IsCall("request_review"))
       /\ post2'.type = "Post2" => ReviewedThenApproved']_vars

C11_Witness ==
    /\ post2.type = "Post2"
    /\ Len(log) = 4
    /\ log[1] = Call("add_text", Salad)
    /\ log[2].op = "request_review"
    /\ log[3].op = "approve"
    /\ log[4] = Call("content", Salad)

(* The calls of the log before the first request_review. *)
DraftCalls ==
    IF Called("request_review")
    THEN SubSeq(log, 1, (CHOOSE i \in 1..Len(log) :
                            /\ log[i].op = "request_review"
                            /\ \A j \in 1..(i - 1) : log[j].op # "request_review") - 1)
    ELSE log

(* C12: in the type-state variant the content changes only by add_text on  *)
(* a DraftPost; request_review and approve carry it over unchanged, so the *)
(* content of the Post2 is the content at the request_review call.         *)
C12_TypeStateContentCarried ==
    [][/\ post2'.content # post2.content =>
             (IsCall("add_text") /\ post2.type = "DraftPost" /\ post2'.type = "DraftPost")
       /\ (IsCall("request_review") \/ IsCall("approve")) =>
             post2'.content = post2.content
       /\ post2'.type = "Post2" => Post2_content(post2') = Concat(DraftCalls')]_vars

C12_Witness ==
    /\ post2.type = "Post2"
    /\ Len(log) = 6
    /\ log[1] = Call("add_text", Salad)
    /\ log[2] = Call("add_text", "")
    /\ log[3] = Call("add_text", "a")
    /\ log[6] = Call("content", Salad \o "a")

(* C13: no call on the Post panics or fails: every step is a completed     *)
(* call, the state is still Some after it, and a call that has no effect   *)
(* in the current phase leaves the Post exactly as it was.                 *)
C13_NoOperationFails ==
    [][/\ ~panicked'
       /\ Len(log') = Len(log) + 1
       /\ ~Post_content_panics(post')
       /\ (IsCall("approve") /\ Phase \in {"Draft", "Published"}) => post' = post
       /\ (IsCall("request_review") /\ Phase \in {"PendingReview", "Published"}) =>
             post' = post]_vars

C13_Witness ==
    /\ Len(log) = 6
    /\ log[1].op = "approve"
    /\ log[2].op = "request_review"
    /\ log[3].op = "request_review"
    /\ log[4].op = "approve"
    /\ log[5].op = "approve"
    /\ log[6].op = "request_review"
    /\ Phase = "Published"
    /\ ~panicked

IsPrefix(a, b) == Len(a) <= Len(b) /\ SubSeq(b, 1, Len(a)) = a

(* C14: the text of a Post only grows by appending: the text before a call *)
(* is a prefix of the text after it, and request_review, approve and       *)
(* content leave the text as it is.                                        *)
C14_TextAppendOnly ==
    [][/\ IsPrefix(post.content, post'.content)
       /\ (IsCall("request_review") \/ IsCall("approve") \/ IsCall("content")) =>
             post'.content = post.content]_vars

C14_Witness ==
    /\ Len(log) = 6
    /\ log[1] = Call("add_text", "a")
    /\ log[2].op = "request_review"
    /\ log[3] = Call("add_text", Salad)
    /\ log[4].op = "approve"
    /\ log[5].op = "content"
    /\ log[6] = Call("add_text", "a")
    /\ post.content = "a" \o Salad \o "a"

(* C15: a Post just made by Post::new() is a Draft with empty text: its    *)
(* content() is empty and an approve() made first leaves it a Draft.       *)
C15_NewPostIsEmptyDraft ==
    /\ log = <<>> => (post.state = Some("Draft") /\ post.content = "")
    /\ (Len(log) >= 1 /\ log[1].op = "content") => log[1].text = ""
    /\ (Len(log) = 1 /\ log[1].op = "approve") => post.state = Some("Draft")

C15_Witness == log = <<>> /\ post = Post_new /\ ~panicked

(* C16: the phase becomes Published only by an approve call made in        *)
(* PendingReview, so a Published Post has had request_review called and    *)
(* approve called after it.                                                *)
C16_PublishedOnlyAfterReview ==
    [][/\ (post'.state = Some("Published") /\ post.state # Some("Published")) =>
             (IsCall("approve") /\ post.state = Some("PendingReview"))
       /\ post'.state = Some("Published") => ReviewedThenApproved']_vars

C16_Witness ==
    /\ Phase = "Published"
    /\ Len(log) = 4
    /\ log[1].op = "approve"
    /\ log[2].op = "request_review"
    /\ log[3] = Call("add_text", Salad)
    /\ log[4].op = "approve"

(* ---------------------------------------------------------------------- *)
(* Order of the phases, publishing, and the order of the two transitions   *)
(* ---------------------------------------------------------------------- *)

(* Draft < PendingReview < Published *)
PhaseRank(s) ==
    CASE s = "Draft" -> 1
      [] s = "PendingReview" -> 2
      [] s = "Published" -> 3

(* C23: no call moves the phase backward in the order Draft <              *)
(* PendingReview < Published, and once the phase is Published it is        *)
(* Published after every further add_text, request_review or approve call. *)
C23_PhaseNeverMovesBackward ==
    [][/\ IsSome(post'.state)
       /\ PhaseRank(post'.state[1]) >= PhaseRank(Phase)
       /\ Phase = "Published" => post'.state = Some("Published")]_vars

C23_Witness ==
    /\ Len(log) = 6
    /\ log[1].op = "request_review"
    /\ log[2].op = "approve"
    /\ {log[3].op, log[4].op, log[5].op} = {"add_text", "request_review", "approve"}
    /\ log[6] = Call("content", log[6].text)
    /\ log[6].text # ""
    /\ Phase = "Published"

(* A request_review call and an approve call after it, with nothing but    *)
(* add_text calls between the two.                                         *)
ReviewThenApproveAt(i, j) ==
    /\ i < j
    /\ log[i].op = "request_review"
    /\ log[j].op = "approve"
    /\ \A k \in (i + 1)..(j - 1) : log[k].op = "add_text"

(* C24: whatever calls came before, once request_review has been called    *)
(* and approve after it, with any add_text calls between the two, the      *)
(* phase is Published.                                                     *)
C24_ReviewThenApprovePublishes ==
    (\E i, j \in 1..Len(log) : ReviewThenApproveAt(i, j)) => post.state = Some("Published")

C24_Witness ==
    /\ Len(log) = 6
    /\ log[1].op = "approve"
    /\ log[2] = Call("add_text", "a")
    /\ log[3].op = "request_review"
    /\ log[4] = Call("add_text", Salad)
    /\ log[5].op = "approve"
    /\ ReviewThenApproveAt(3, 5)
    /\ log[6] = Call("content", "a" \o Salad)
    /\ Phase = "Published"

(* The phase a Post ends in after approve() then request_review(), and     *)
(* after request_review() then approve().                                  *)
ApproveThenReview(p) == Post_request_review(Post_approve(p))

ReviewThenApprove(p) == Post_approve(Post_request_review(p))

(* C25: on a Draft Post approve() then request_review() ends in            *)
(* PendingReview with content() empty, and request_review() then           *)
(* approve() ends in Published; on a PendingReview and on a Published Post *)
(* the two orders end in the same phase.                                   *)
C25_ReviewAndApproveOrder ==
    [][/\ Phase = "Draft" =>
             /\ ApproveThenReview(post).state = Some("PendingReview")
             /\ Post_content(ApproveThenReview(post)) = ""
             /\ ReviewThenApprove(post).state = Some("Published")
       /\ Phase \in {"PendingReview", "Published"} =>
             ApproveThenReview(post).state = ReviewThenApprove(post).state
       /\ (IsCall("request_review") /\ LastOp = "approve" /\ Phase = "Draft") =>
             /\ post'.state = Some("PendingReview")
             /\ Post_content(post') = ""
       /\ (IsCall("approve") /\ LastOp = "request_review") =>
             post'.state = Some("Published")]_vars

C25_Witness ==
    /\ Len(log) = 4
    /\ log[1] = Call("add_text", Salad)
    /\ log[2].op = "approve"
    /\ log[3].op = "request_review"
    /\ log[4] = Call("content", "")
    /\ Phase = "PendingReview"
    /\ ReviewThenApprove(Post_new).state = Some("Published")

(* ---------------------------------------------------------------------- *)
(* closures: call_with_different_values, generalised                       *)
(* ---------------------------------------------------------------------- *)
InitCacher ==
    /\ OopIdle
    /\ log = <<>>
    /\ panicked = FALSE
    /\ \E f \in Closures : cacher = Cacher_new(f)
    /\ calculated = 0
    /\ CountersIdle
    /\ TrackerIdle
    /\ SearchIdle

(* c.value(arg); the log keeps the argument and the value returned. *)
CacherValue(arg) ==
    /\ CanCall
    /\ LET r == Cacher_value(cacher, arg)
       IN  /\ cacher' = r.self
           /\ calculated' = IF r.ran THEN calculated + 1 ELSE calculated
           /\ log' = Append(log, [op |-> "value", arg |-> arg, ret |-> r.ret])
    /\ UNCHANGED <<post, post2, panicked, counters, limit_tracker, sent_messages,
                   searched>>

NextCacher == \E arg \in 0..MaxArg : CacherValue(arg)

SpecCacher == InitCacher /\ [][NextCacher]_vars

(* C17: over any sequence of value(arg) calls the closure runs at most     *)
(* once: the first call runs it on its argument and stores the result,     *)
(* and every later call returns that stored result whatever its argument;  *)
(* after value(1) on the identity closure, value(2) returns 1.             *)
C17_CacherRunsClosureOnce ==
    /\ calculated <= 1
    /\ log # <<>> =>
          /\ calculated = 1
          /\ cacher.value = Some(Calculation(cacher.calculation, log[1].arg))
          /\ \A i \in 1..Len(log) :
                log[i].ret = Calculation(cacher.calculation, log[1].arg)
    /\ (/\ cacher.calculation = "identity"
        /\ Len(log) >= 2
        /\ log[1].arg = 1
        /\ log[2].arg = 2) => log[2].ret = 1

C17_Witness ==
    /\ cacher.calculation = "identity"
    /\ Len(log) = 2
    /\ log[1] = [op |-> "value", arg |-> 1, ret |-> 1]
    /\ log[2] = [op |-> "value", arg |-> 2, ret |-> 1]
    /\ calculated = 1

(* ---------------------------------------------------------------------- *)
(* iterators: calling_next_directly, generalised                           *)
(* ---------------------------------------------------------------------- *)
InitCounter ==
    /\ OopIdle
    /\ log = <<>>
    /\ panicked = FALSE
    /\ CacherIdle
    /\ counters = [i \in 1..NumCounters |-> Counter_new]
    /\ TrackerIdle
    /\ SearchIdle

(* next() on the i-th Counter; the log keeps what it returned. *)
CounterNext(i) ==
    /\ ~panicked
    /\ Len(log) < MaxNext
    /\ LET r == Counter_next(counters[i])
       IN  /\ counters' = [counters EXCEPT ![i] = r.self]
           /\ log' = Append(log, [op |-> "next", id |-> i, ret |-> r.ret])
    /\ UNCHANGED <<post, post2, panicked, cacher, calculated, limit_tracker,
                   sent_messages, searched>>

NextCounter == \E i \in 1..NumCounters : CounterNext(i)

SpecCounter == InitCounter /\ [][NextCounter]_vars

(* The next() calls made on the i-th Counter, in call order. *)
Returned(i) == SelectSeq(log, LAMBDA e : e.id = i)

(* C18: the first five next() calls on a new Counter return Some(1) to     *)
(* Some(5) in that order, the sixth and every later call returns None,     *)
(* and count never exceeds 5.                                              *)
C18_CounterOneToFive ==
    \A i \in 1..NumCounters :
        /\ counters[i].count <= 5
        /\ \A k \in 1..Len(Returned(i)) :
              Returned(i)[k].ret = IF k <= 5 THEN Some(k) ELSE None

C18_Witness ==
    /\ Len(Returned(1)) = 7
    /\ Returned(1)[5].ret = Some(5)
    /\ Returned(1)[6].ret = None
    /\ Returned(1)[7].ret = None
    /\ counters[1].count = 5
    /\ Len(Returned(2)) = 1

(* ---------------------------------------------------------------------- *)
(* refcell: it_sends_an_over_75_percent_warning_message, generalised       *)
(* ---------------------------------------------------------------------- *)

(* The usize values a caller passes as max and as value: small ones, and  *)
(* ones next to 2^53, 3 * 2^58, 2^60 and 2^64.                            *)
TrackerValues ==
    {u \in {Usize(n) : n \in {0, 1, 3, 4, 9, 10, 74, 75, 80, 89, 90, 99, 100, 101}}
           \cup {<<1>> \o Zeros(53), <<1>> \o Zeros(52) \o <<1>>,
                 <<1, 0>> \o Ones(58), <<1, 1>> \o Zeros(58),
                 Ones(60), <<1>> \o Zeros(60), Ones(64)} :
        Len(u) <= UsizeBits}

InitTracker ==
    /\ OopIdle
    /\ log = <<>>
    /\ panicked = FALSE
    /\ CacherIdle
    /\ CountersIdle
    /\ \E max \in TrackerValues : limit_tracker = LimitTracker_new(max)
    /\ sent_messages = <<>>
    /\ SearchIdle

RECURSIVE SendAll(_, _)
(* The mock after the send calls of one set_value. *)
SendAll(sent, messages) ==
    IF messages = <<>> THEN sent
    ELSE SendAll(MockMessenger2_send(sent, Head(messages)), Tail(messages))

(* limit_tracker.set_value(value) *)
SetValue(value) ==
    /\ ~panicked
    /\ Len(log) < MaxSetValues
    /\ LET r == LimitTracker_set_value(limit_tracker, value)
       IN  /\ limit_tracker' = r.self
           /\ sent_messages' = SendAll(sent_messages, r.sent)
    /\ log' = Append(log, [op |-> "set_value", arg |-> value])
    /\ UNCHANGED <<post, post2, panicked, cacher, calculated, counters, searched>>

NextTracker == \E value \in TrackerValues : SetValue(value)

SpecTracker == InitTracker /\ [][NextTracker]_vars

(* A usize as three numbers below 2^27, most significant first: room for *)
(* ten times a usize.                                                     *)
Thirds(u) ==
    LET padded == Zeros(81 - Len(u)) \o u
    IN  <<DigitsValue(SubSeq(padded, 1, 27)),
          DigitsValue(SubSeq(padded, 28, 54)),
          DigitsValue(SubSeq(padded, 55, 81))>>

(* k * x, exactly, for k <= 10. *)
ThirdsTimes(x, k) ==
    LET low == k * x[3]
        mid == k * x[2] + low \div HalfBase
        high == k * x[1] + mid \div HalfBase
    IN  <<high, mid % HalfBase, low % HalfBase>>

ThirdsGe(x, y) ==
    \/ x[1] > y[1]
    \/ x[1] = y[1] /\ x[2] > y[2]
    \/ x[1] = y[1] /\ x[2] = y[2] /\ x[3] >= y[3]

(* x >= y on usize values, exactly. *)
UsizeGe(x, y) == ThirdsGe(Thirds(x), Thirds(y))

(* value >= 3/4 of max and value >= 9/10 of max, exactly. *)
AtLeastThreeQuarters(value, max) ==
    ThirdsGe(ThirdsTimes(Thirds(value), 4), ThirdsTimes(Thirds(max), 3))

AtLeastNineTenths(value, max) ==
    ThirdsGe(ThirdsTimes(Thirds(value), 10), ThirdsTimes(Thirds(max), 9))

(* The messages the claim names for set_value(value) with this max. *)
ClaimedMessages(value, max) ==
    IF UsizeGe(value, max) THEN <<MsgOverQuota>>
    ELSE IF AtLeastNineTenths(value, max) THEN <<MsgOver90>>
    ELSE IF AtLeastThreeQuarters(value, max) THEN <<MsgOver75>>
    ELSE <<>>

(* C19: set_value(v) with max > 0 stores v and sends exactly one message   *)
(* when v is at least 75% of max and none below: the over-quota error when *)
(* v >= max, the 90% warning when 90% <= v/max < 100%, the 75% warning     *)
(* when 75% <= v/max < 90%.                                                *)
C19_SetValueMessageByRatio ==
    [][(IsCall("set_value") /\ limit_tracker.max # <<>>) =>
          /\ limit_tracker'.value = log'[Len(log')].arg
          /\ limit_tracker'.max = limit_tracker.max
          /\ sent_messages' =
                sent_messages \o ClaimedMessages(log'[Len(log')].arg, limit_tracker.max)]_vars

(* ---------------------------------------------------------------------- *)
(* minigrep: one_result and case_sensitive, generalised                    *)
(* ---------------------------------------------------------------------- *)
RECURSIVE StringsUpTo(_, _)
(* The strings of at most n characters of chars. *)
StringsUpTo(chars, n) ==
    IF n = 0 THEN {""}
    ELSE LET shorter == StringsUpTo(chars, n - 1)
         IN  shorter \cup {s \o c : s \in shorter, c \in chars}

(* The contents and the query of the test case_sensitive. *)
DuctContents == "Rust:\nsafe, fast, productive.\nPick three.\nDuct tape."

DuctQuery == "duct"

Searches ==
    {[query |-> q, contents |-> c] :
        q \in StringsUpTo({"d", "D", "\r"}, MaxQueryLen),
        c \in StringsUpTo({"d", "D", "\n", "\r"}, MaxContentsLen)}
    \cup {[query |-> DuctQuery, contents |-> DuctContents]}

InitSearch ==
    /\ OopIdle
    /\ log = <<>>
    /\ panicked = FALSE
    /\ CacherIdle
    /\ CountersIdle
    /\ TrackerIdle
    /\ \E s \in Searches :
          searched = [query |-> s.query, contents |-> s.contents,
                      results |-> <<>>, called |-> FALSE]

(* search(query, contents) *)
Search ==
    /\ ~searched.called
    /\ searched' = [searched EXCEPT
                       !.results = search(searched.query, searched.contents),
                       !.called = TRUE]
    /\ UNCHANGED <<post, post2, log, panicked, cacher, calculated, counters,
                   limit_tracker, sent_messages>>

NextSearch == Search

SpecSearch == InitSearch /\ [][NextSearch]_vars

(* The places of contents where a line starts, the line that starts at p  *)
(* (it ends before the next "\n" or "\r\n", or with contents), and whether *)
(* query occurs in a line.                                                *)
LineStarts(contents) ==
    {p \in 1..Len(contents) : p = 1 \/ SubSeq(contents, p - 1, p - 1) = "\n"}

LineAt(contents, p) ==
    LET ends == {e \in p..(Len(contents) + 1) :
                    e = Len(contents) + 1 \/ SubSeq(contents, e, e) = "\n"}
        end == CHOOSE e \in ends : \A f \in ends : e <= f
        crlf == /\ end <= Len(contents)
                /\ end - 1 >= p
                /\ SubSeq(contents, end - 1, end - 1) = "\r"
    IN  SubSeq(contents, p, IF crlf THEN end - 2 ELSE end - 1)

Occurs(query, line) ==
    \E i \in 0..Len(line) :
        /\ i + Len(query) <= Len(line)
        /\ SubSeq(line, i + 1, i + Len(query)) = query

(* C20: search returns exactly the lines of contents in which query occurs *)
(* with the same letter case, one per such line and in the order of the    *)
(* lines; for the query "duct" the line "Duct tape." is not returned.      *)
C20_SearchCaseSensitiveLines ==
    searched.called =>
        LET matching == {p \in LineStarts(searched.contents) :
                            Occurs(searched.query, LineAt(searched.contents, p))}
        IN  /\ Len(searched.results) = Cardinality(matching)
            /\ \A p \in matching :
                  searched.results[Cardinality({m \in matching : m <= p})]
                     = LineAt(searched.contents, p)
            /\ (searched.query = DuctQuery /\ searched.contents = DuctContents) =>
                  searched.results = <<"safe, fast, productive.">>

C20_Witness ==
    /\ searched.called
    /\ searched.query = DuctQuery
    /\ searched.contents = DuctContents
    /\ searched.results = <<"safe, fast, productive.">>

(* ---------------------------------------------------------------------- *)
(* minigrep: case_insensitive, generalised                                 *)
(* ---------------------------------------------------------------------- *)

(* The contents and the query of the test case_insensitive. *)
TrustContents == "Rust:\nsafe, fast, productive.\nPick three.\nTrust me."

TrustQuery == "rUsT"

SearchesCaseInsensitive ==
    {[query |-> q, contents |-> c] :
        q \in StringsUpTo({"r", "R", "T"}, MaxQueryLen),
        c \in StringsUpTo({"r", "R", "t", "\n"}, MaxContentsLen)}
    \cup {[query |-> TrustQuery, contents |-> TrustContents]}

InitSearchCaseInsensitive ==
    /\ OopIdle
    /\ log = <<>>
    /\ panicked = FALSE
    /\ CacherIdle
    /\ CountersIdle
    /\ TrackerIdle
    /\ \E s \in SearchesCaseInsensitive :
          searched = [query |-> s.query, contents |-> s.contents,
                      results |-> <<>>, called |-> FALSE]

(* search_case_insensitive(query, contents) *)
SearchCaseInsensitive ==
    /\ ~searched.called
    /\ searched' = [searched EXCEPT
                       !.results = search_case_insensitive(searched.query,
                                                           searched.contents),
                       !.called = TRUE]
    /\ UNCHANGED <<post, post2, log, panicked, cacher, calculated, counters,
                   limit_tracker, sent_messages>>

NextSearchCaseInsensitive == SearchCaseInsensitive

SpecSearchCaseInsensitive ==
    InitSearchCaseInsensitive /\ [][NextSearchCaseInsensitive]_vars

(* Two characters that are one letter, whatever the case of each. *)
SameLetter(a, b) ==
    \/ a = b
    \/ \E i \in 1..Len(UppercaseLetters) :
          {a, b} = {SubSeq(UppercaseLetters, i, i), SubSeq(LowercaseLetters, i, i)}

(* The lowercased query occurs in the lowercased line. *)
OccursLowercased(query, line) ==
    \E i \in 0..Len(line) :
        /\ i + Len(query) <= Len(line)
        /\ \A k \in 1..Len(query) :
              SameLetter(SubSeq(query, k, k), SubSeq(line, i + k, i + k))

(* C21: search_case_insensitive returns exactly the lines of contents      *)
(* whose lowercased form contains the lowercased query, in the order of    *)
(* the lines and as they are written in contents; for the query "rUsT"     *)
(* it returns "Rust:" and "Trust me.".                                     *)
C21_SearchCaseInsensitiveLines ==
    searched.called =>
        LET matching == {p \in LineStarts(searched.contents) :
                            OccursLowercased(searched.query,
                                             LineAt(searched.contents, p))}
        IN  /\ Len(searched.results) = Cardinality(matching)
            /\ \A p \in matching :
                  searched.results[Cardinality({m \in matching : m <= p})]
                     = LineAt(searched.contents, p)
            /\ (searched.query = TrustQuery /\ searched.contents = TrustContents) =>
                  searched.results = <<"Rust:", "Trust me.">>

C21_Witness ==
    /\ searched.called
    /\ searched.query = TrustQuery
    /\ searched.contents = TrustContents
    /\ searched.results = <<"Rust:", "Trust me.">>

(* ---------------------------------------------------------------------- *)
(* adder: greater_than_100, generalised                                    *)
(* ---------------------------------------------------------------------- *)

(* The i32 arguments of Guess::new: around the range 1..100, the 200 of    *)
(* the test, and the far ends of i32.                                      *)
GuessValues ==
    ((0 - MaxGuessBeyond)..(100 + MaxGuessBeyond))
        \cup {200, 2147483647, 0 - 2147483647}

InitGuess ==
    /\ OopIdle
    /\ log = <<>>
    /\ panicked = FALSE
    /\ LibIdle

(* Guess::new(value); the log keeps the argument and the Guess or the      *)
(* panic message that came of it.                                          *)
GuessNew(value) ==
    /\ ~panicked
    /\ log = <<>>
    /\ LET r == Guess_new(value)
       IN  /\ log' = Append(log, [op |-> "Guess::new", arg |-> value,
                                  panic |-> r.panic, ret |-> r.ret])
           /\ panicked' = IsSome(r.panic)
    /\ UNCHANGED <<post, post2>>
    /\ UNCHANGED libVars

NextGuess == \E value \in GuessValues : GuessNew(value)

SpecGuess == InitGuess /\ [][NextGuess]_vars

(* The text the test greater_than_100 expects in the panic message. *)
ExpectedGreaterThan100 == "Guess value must be less than or equal to 100"

(* C22: Guess::new with a value greater than 100 panics, and the panic     *)
(* message contains "Guess value must be less than or equal to 100".       *)
C22_GuessAbove100PanicsWithMessage ==
    \A i \in 1..Len(log) :
        (log[i].op = "Guess::new" /\ log[i].arg > 100) =>
            /\ panicked
            /\ IsSome(log[i].panic)
            /\ Occurs(ExpectedGreaterThan100, log[i].panic[1])

====
